---- MODULE Spec2Model ----
(***************************************************************************)
(* Model of the prediction-league scoring and leaderboard engine           *)
(* (data_manager.py, config.py).                                           *)
(*                                                                         *)
(* Two specifications share the module:                                    *)
(*   SpecScore  calculate_points applied to one (prediction, result) pair  *)
(*              drawn from a bounded set of inputs;                        *)
(*   Spec       the document store (users, settings, results, predictions, *)
(*              manual adjustment log) with the operations that write it   *)
(*              and calculate_user_scores reading it.                      *)
(***************************************************************************)
EXTENDS Integers, Sequences, FiniteSets, TLC

\* ------------------------------------------------------------------------
\* Bounds of the model
\* ------------------------------------------------------------------------
\* largest goal count of a prediction or a result handed to calculate_points
MaxGoal == 3
\* weeks 1..MaxWeek have documents; current_week ranges over 1..MaxWeek+1
MaxWeek == 2
\* number of commits (successful store writes) explored
MaxCommits == 3
\* the weeks of a season that get_leaderboard ranks (SpecRank)
MaxPlayed == 3

\* ------------------------------------------------------------------------
\* Points configuration (config.py)
\* ------------------------------------------------------------------------
POINTS_EXACT_SCORE == 2
POINTS_CORRECT_RESULT == 1
POINTS_GOAL_DIFFERENCE == 0

\* The three weights as one configuration value.
ConfiguredWeights ==
    [exact_score |-> POINTS_EXACT_SCORE,
     correct_result |-> POINTS_CORRECT_RESULT,
     goal_difference |-> POINTS_GOAL_DIFFERENCE]

\* Weight configurations calculate_points is checked under: the one of
\* config.py and two others (the module constants are the only thing
\* calculate_points reads besides its arguments).
WeightConfigs ==
    { ConfiguredWeights,
      [exact_score |-> 5, correct_result |-> 3, goal_difference |-> 1],
      [exact_score |-> 3, correct_result |-> 1, goal_difference |-> 2] }

\* ------------------------------------------------------------------------
\* Values of a result's home_score / away_score cell
\* ------------------------------------------------------------------------
\* A cell is a tagged value:
\*   "int"     the integer v (as int64, or as a float with integer value)
\*   "frac"    the float v + 1/2
\*   "text"    a string float() cannot parse
\*   "nan"     NaN (an empty CSV cell)
\*   "missing" the key is absent, or its value is None
\*   "inf"     the float infinity (read_csv parses "inf")
IntCell(n) == [t |-> "int", v |-> n]
FracCell(n) == [t |-> "frac", v |-> n]
TextCell == [t |-> "text", v |-> 0]
NaNCell == [t |-> "nan", v |-> 0]
MissingCell == [t |-> "missing", v |-> 0]
InfCell == [t |-> "inf", v |-> 0]

\* What a call yields: a returned value, or a raised exception.
Return(n) == [exc |-> "none", value |-> n]
Raise(e) == [exc |-> e, value |-> 0]

\* home_score is None or pd.isna(home_score)
IsNoneOrNa(cell) == cell.t \in {"missing", "nan"}

\* int(float(cell)): truncation toward zero for a finite float, ValueError
\* for unparseable text and for NaN, OverflowError for infinity, TypeError
\* for None.
IntOfFloat(cell) ==
    CASE cell.t = "int" -> Return(cell.v)
      [] cell.t = "frac" -> Return(IF cell.v >= 0 THEN cell.v ELSE cell.v + 1)
      [] cell.t = "text" -> Raise("ValueError")
      [] cell.t = "inf" -> Raise("OverflowError")
      [] cell.t = "nan" -> Raise("ValueError")
      [] OTHER -> Raise("TypeError")

\* "draw" / "home" / "away" from a pair of integer scores
ResultOutcome(home, away) ==
    IF home = away THEN "draw" ELSE IF home > away THEN "home" ELSE "away"

\* A result argument: None, or a row with the two score cells.
NoneResult == [is_none |-> TRUE, home_score |-> MissingCell, away_score |-> MissingCell]
ResultRow(h, a) == [is_none |-> FALSE, home_score |-> h, away_score |-> a]
\* A prediction: the two predicted scores.
Prediction(h, a) == [home_score |-> h, away_score |-> a]

\* Faulty variant of Score: the exact-score branch does not return early, the two
\* bonuses are added on top of it.
ScoreExactFallsThrough(prediction, actual_result, w) ==
    IF actual_result.is_none THEN Return(0)
    ELSE IF IsNoneOrNa(actual_result.home_score) \/ IsNoneOrNa(actual_result.away_score)
    THEN Return(0)
    ELSE LET h == IntOfFloat(actual_result.home_score)
             a == IntOfFloat(actual_result.away_score)
         IN  IF h.exc # "none" THEN (IF h.exc = "OverflowError" THEN h ELSE Return(0))
             ELSE IF a.exc # "none" THEN (IF a.exc = "OverflowError" THEN a ELSE Return(0))
             ELSE Return(
                 (IF prediction.home_score = h.value /\ prediction.away_score = a.value
                  THEN w.exact_score ELSE 0)
               + (IF ResultOutcome(prediction.home_score, prediction.away_score)
                     = ResultOutcome(h.value, a.value)
                  THEN w.correct_result ELSE 0)
               + (IF prediction.home_score - prediction.away_score = h.value - a.value
                  THEN w.goal_difference ELSE 0))

\* Faulty variant of Score: the goal-difference bonus is an elif of the result bonus.
ScoreExclusiveBonuses(prediction, actual_result, w) ==
    IF actual_result.is_none THEN Return(0)
    ELSE IF IsNoneOrNa(actual_result.home_score) \/ IsNoneOrNa(actual_result.away_score)
    THEN Return(0)
    ELSE LET h == IntOfFloat(actual_result.home_score)
             a == IntOfFloat(actual_result.away_score)
         IN  IF h.exc # "none" THEN (IF h.exc = "OverflowError" THEN h ELSE Return(0))
             ELSE IF a.exc # "none" THEN (IF a.exc = "OverflowError" THEN a ELSE Return(0))
             ELSE IF prediction.home_score = h.value /\ prediction.away_score = a.value
             THEN Return(w.exact_score)
             ELSE IF ResultOutcome(prediction.home_score, prediction.away_score)
                        = ResultOutcome(h.value, a.value)
             THEN Return(w.correct_result)
             ELSE IF prediction.home_score - prediction.away_score = h.value - a.value
             THEN Return(w.goal_difference)
             ELSE Return(0)

\* Faulty variant of Score: the result bonus is given on the winner's goals alone
\* (predicted home score equals the actual one) instead of the outcome class.
ScoreResultByHomeGoals(prediction, actual_result, w) ==
    IF actual_result.is_none THEN Return(0)
    ELSE IF IsNoneOrNa(actual_result.home_score) \/ IsNoneOrNa(actual_result.away_score)
    THEN Return(0)
    ELSE LET h == IntOfFloat(actual_result.home_score)
             a == IntOfFloat(actual_result.away_score)
         IN  IF h.exc # "none" THEN (IF h.exc = "OverflowError" THEN h ELSE Return(0))
             ELSE IF a.exc # "none" THEN (IF a.exc = "OverflowError" THEN a ELSE Return(0))
             ELSE IF prediction.home_score = h.value /\ prediction.away_score = a.value
             THEN Return(w.exact_score)
             ELSE Return(
                 (IF prediction.home_score = h.value THEN w.correct_result ELSE 0)
               + (IF prediction.home_score - prediction.away_score = h.value - a.value
                  THEN w.goal_difference ELSE 0))

\* calculate_points with the three weights as a parameter.
Score(prediction, actual_result, w) ==
    \* if actual_result is None: return 0
    IF actual_result.is_none THEN Return(0)
    \* home_score/away_score None or NaN: return 0
    ELSE IF IsNoneOrNa(actual_result.home_score) \/ IsNoneOrNa(actual_result.away_score)
    THEN Return(0)
    ELSE LET h == IntOfFloat(actual_result.home_score)
             a == IntOfFloat(actual_result.away_score)
         IN  \* except (ValueError, TypeError): return 0; any other exception
             \* leaves the function
             IF h.exc # "none" THEN (IF h.exc = "OverflowError" THEN h ELSE Return(0))
             ELSE IF a.exc # "none" THEN (IF a.exc = "OverflowError" THEN a ELSE Return(0))
             \* exact score
             ELSE IF prediction.home_score = h.value /\ prediction.away_score = a.value
             THEN Return(w.exact_score)
             ELSE Return(
                 \* correct result (win/draw/loss)
                 (IF ResultOutcome(prediction.home_score, prediction.away_score)
                     = ResultOutcome(h.value, a.value)
                  THEN w.correct_result ELSE 0)
                 \* goal difference
               + (IF prediction.home_score - prediction.away_score = h.value - a.value
                  THEN w.goal_difference ELSE 0))

\* calculate_points as the program runs it, under the weights of config.py
calculate_points(prediction, actual_result) ==
    Score(prediction, actual_result, ConfiguredWeights)

\* ------------------------------------------------------------------------
\* State
\* ------------------------------------------------------------------------
VARIABLES
    \* --- one call of calculate_points (SpecScore) ---
    prediction,      \* its prediction argument
    actual_result,   \* its actual_result argument
    weights,         \* the POINTS_* configuration it runs under
    points,          \* what the call yielded, NotCalled before it
    \* --- the document store (Spec) ---
    users,           \* users.json: the usernames in document (registration) order
    current_week,    \* settings.json: current_week
    results,         \* results/week{N}.csv, per week
    predictions,     \* predictions/week{N}.json, per week: username -> entry
    adjustments,     \* manual_adjustments.json: the log, oldest entry first
    commits,         \* number of commits made to the store
    user_scores,     \* what calculate_user_scores returned to the running request
    leaderboard,     \* what get_leaderboard returned to the running request
    \* --- read-modify-write against the store (SpecConc) ---
    revision,        \* the sha the store holds for the log and for each
                     \* week's predictions document, 0 for an absent one
    sessions,        \* per browser session: the save it is in, what it read
    \* --- settings, decryption and the running request's call ---
    predictions_open,  \* settings.json: predictions_open
    unreadable,      \* the weeks whose predictions document exists and does
                     \* not decrypt under the deployment's key
    missing,         \* which of users.json and settings.json are not in the
                     \* store
    call             \* the data or config call the running request made,
                     \* with what it returned

scoreVars == <<prediction, actual_result, weights, points>>
storeVars == <<users, current_week, results, predictions, adjustments, commits>>
vars == <<prediction, actual_result, weights, points,
          users, current_week, results, predictions, adjustments, commits,
          user_scores, leaderboard, revision, sessions,
          predictions_open, unreadable, missing, call>>

NotCalled == [exc |-> "not called", value |-> 0]

Weeks == 1..MaxWeek
Usernames == {"admin", "alice", "bob"}

\* the empty dict
EmptyDict == [k \in {} |-> 0]
\* no value computed by the running request
NoScores == [called |-> FALSE, scores |-> EmptyDict]
NotRanked == [called |-> FALSE, entries |-> <<>>]

\* the browser sessions that can be in a save at the same time
Sessions == {"s1", "s2"}
\* a session that is in no save
IdleSession ==
    [pc |-> "idle", op |-> "none", username |-> "", week_num |-> 0,
     list |-> <<>>, points_change |-> 0,
     log |-> <<>>, document |-> EmptyDict, sha |-> 0, returned |-> FALSE,
     message |-> "none", new_total |-> 0, reason |-> ""]
\* no session is in a save
NoSessions == [s \in Sessions |-> IdleSession]
\* no document with a sha to track
NoRevisions == [adjustments |-> 0, predictions |-> [w \in Weeks |-> 0]]
\* the running request has made no call
NoCall == [op |-> "none"]
\* what the operations leave alone that write neither settings.json nor a
\* predictions document
settingVars == <<predictions_open, unreadable, missing>>

\* ------------------------------------------------------------------------
\* Input sets
\* ------------------------------------------------------------------------
\* arguments of calculate_points
Goals == 0..MaxGoal
ScorePredictions == { Prediction(h, a) : h \in Goals, a \in Goals }
ScoreCells ==
    { IntCell(n) : n \in Goals } \cup { FracCell(n) : n \in Goals }
        \cup { TextCell, NaNCell, MissingCell, InfCell }
ScoreResults ==
    { NoneResult } \cup { ResultRow(h, a) : h \in ScoreCells, a \in ScoreCells }

\* what the prediction form and the results form submit: prediction lists
\* of length 1, 2 and 3 and result tables of length 1 and 2, so that a list
\* can be shorter and can be longer than the table it is scored against;
\* and the table without rows (a results_df that has the four columns and
\* no row is stored as a header line and loads as an empty DataFrame)
P10 == Prediction(1, 0)
P11 == Prediction(1, 1)
R10 == ResultRow(IntCell(1), IntCell(0))
R20 == ResultRow(IntCell(2), IntCell(0))
PredictionLists == { <<P10>>, <<P11, P10>>, <<P10, P11, P10>> }
ResultTables == { <<>>, <<R10>>, <<R20, R10>> }
PointsChanges == { -2, 3 }

\* ------------------------------------------------------------------------
\* SpecScore: one call of calculate_points
\* ------------------------------------------------------------------------
\* the store of a freshly initialised repository: _initialize_config_files
\* wrote the default users.json (admin only) and settings.json (week 1)
FreshStore ==
    /\ users = <<"admin">>
    /\ current_week = 1
    /\ results = [w \in Weeks |-> [exists |-> FALSE, rows |-> <<>>]]
    /\ predictions = [w \in Weeks |-> EmptyDict]
    /\ adjustments = <<>>
    /\ commits = 0
    /\ revision = NoRevisions
    /\ predictions_open = TRUE
    /\ unreadable = {}
    /\ missing = {}

InitScore ==
    /\ prediction \in ScorePredictions
    /\ actual_result \in ScoreResults
    /\ weights \in WeightConfigs
    /\ points = NotCalled
    /\ FreshStore
    /\ user_scores = NoScores
    /\ leaderboard = NotRanked
    /\ sessions = NoSessions
    /\ call = NoCall

\* points = calculate_points(prediction, actual_result); the arguments are
\* only read (to_dict() builds a new dict, the name is rebound)
CalculatePoints ==
    /\ points = NotCalled
    /\ points' = Score(prediction, actual_result, weights)
    /\ UNCHANGED <<prediction, actual_result, weights>>
    /\ UNCHANGED storeVars
    /\ UNCHANGED <<user_scores, leaderboard, revision, sessions>>
    /\ UNCHANGED <<predictions_open, unreadable, missing, call>>

NextScore == CalculatePoints

SpecScore == InitScore /\ [][NextScore]_vars

\* ------------------------------------------------------------------------
\* Claims about calculate_points (checked under SpecScore)
\* ------------------------------------------------------------------------
Called == points # NotCalled

\* the result is a row whose two scores are integers
IntegerResult ==
    /\ ~actual_result.is_none
    /\ actual_result.home_score.t = "int"
    /\ actual_result.away_score.t = "int"

\* HOME_WIN / DRAW / AWAY_WIN from the sign of home - away
OutcomeClass(home, away) ==
    CASE home - away > 0 -> "HOME_WIN"
      [] home - away = 0 -> "DRAW"
      [] OTHER -> "AWAY_WIN"

PredictedClass == OutcomeClass(prediction.home_score, prediction.away_score)
ActualClass == OutcomeClass(actual_result.home_score.v, actual_result.away_score.v)
PredictedDiff == prediction.home_score - prediction.away_score
ActualDiff == actual_result.home_score.v - actual_result.away_score.v

\* prediction and result have the same home score and the same away score
SameScoreline ==
    /\ IntegerResult
    /\ actual_result.home_score.v = prediction.home_score
    /\ actual_result.away_score.v = prediction.away_score

\* C2: when prediction and result have equal home scores and equal away
\* scores, calculate_points returns exactly the exact-score weight: no
\* correct-result or goal-difference bonus is added, whatever those two
\* weights are.
C2_ExactScoreOnly ==
    (Called /\ SameScoreline) => points = Return(weights.exact_score)

\* C2 witness: 2-1 predicted, 2-1 played, under weights whose two bonuses
\* are both positive; the call returned the exact-score weight.
C2_Witness ==
    /\ Called
    /\ prediction = Prediction(2, 1)
    /\ actual_result = ResultRow(IntCell(2), IntCell(1))
    /\ weights.correct_result > 0
    /\ weights.goal_difference > 0
    /\ points = Return(weights.exact_score)

\* C3: for a non-exact pair with integer result scores, calculate_points
\* returns the correct-result weight if the outcome classes match (else 0)
\* plus the goal-difference weight if the goal differences are equal
\* (else 0), the two checks being independent and added.
C3_AdditiveBonuses ==
    (Called /\ IntegerResult /\ ~SameScoreline) =>
        points = Return(
            (IF PredictedClass = ActualClass THEN weights.correct_result ELSE 0)
          + (IF PredictedDiff = ActualDiff THEN weights.goal_difference ELSE 0))

\* C3 witness: 1-0 predicted, 3-0 played (same outcome, different
\* difference) under a positive goal-difference weight: exactly the
\* correct-result weight was returned.
C3_Witness ==
    /\ Called
    /\ prediction = Prediction(1, 0)
    /\ actual_result = ResultRow(IntCell(3), IntCell(0))
    /\ weights.goal_difference > 0
    /\ points = Return(weights.correct_result)

\* C4: when the outcome class of the prediction differs from the result's
\* and the goal differences differ, calculate_points returns 0.
C4_NothingRightScoresZero ==
    (Called /\ IntegerResult /\ PredictedClass # ActualClass /\ PredictedDiff # ActualDiff)
        => points = Return(0)

\* C4 witness: 1-1 predicted, 2-0 played; the call returned 0.
C4_Witness ==
    /\ Called
    /\ prediction = Prediction(1, 1)
    /\ actual_result = ResultRow(IntCell(2), IntCell(0))
    /\ points = Return(0)

\* C5 (as claimed): calculate_points is total: for every prediction and
\* every result, also one whose scores are missing, NaN or unparseable, the
\* call returns an integer >= 0 and raises nothing.
C5_TotalNeverRaises ==
    Called => (points.exc = "none" /\ points.value >= 0)

\* a score that is missing, NaN or not convertible to an integer
Unscorable(cell) == cell.t \in {"missing", "nan", "text", "inf"}

\* C6 (as claimed): when the result is None or one of its scores is
\* missing, NaN or not convertible to an integer, calculate_points returns 0
\* for every prediction.
C6_UnplayedScoresZero ==
    (Called /\ (actual_result.is_none
                \/ Unscorable(actual_result.home_score)
                \/ Unscorable(actual_result.away_score)))
        => points = Return(0)

\* ------------------------------------------------------------------------
\* Store documents
\* ------------------------------------------------------------------------
\* an entry of a predictions document: the record save_predictions writes,
\* {"predictions": [...], "submitted_at": ...}, or the bare list of the
\* older format
RecordEntry(list) == [kind |-> "record", predictions |-> list]
ListEntry(list) == [kind |-> "list", predictions |-> list]
\* a log entry of manual_adjustments.json
Adjustment(username, points_change) ==
    [username |-> username, points_change |-> points_change]

\* f"week_{week}"
WeekKey(week) == "week_" \o ToString(week)

\* load_results: the table, or None when the document is absent
LoadResults(results_docs, week_num) ==
    IF week_num \in DOMAIN results_docs /\ results_docs[week_num].exists
    THEN [is_none |-> FALSE, rows |-> results_docs[week_num].rows]
    ELSE [is_none |-> TRUE, rows |-> <<>>]

\* load_predictions(week): the whole document, {} when it is absent
LoadPredictions(predictions_docs, week_num) ==
    IF week_num \in DOMAIN predictions_docs THEN predictions_docs[week_num]
    ELSE EmptyDict

\* decrypt_data on the content of a predictions document: the dict, and
\* where decryption fails (None) the {} that save_predictions and
\* load_predictions go on with
DecryptedOrEmpty(document, decrypts) ==
    IF decrypts THEN document ELSE EmptyDict

\* get_users: the usernames of users.json
KnownUsers(users_doc) == { users_doc[i] : i \in DOMAIN users_doc }

\* ------------------------------------------------------------------------
\* calculate_user_scores
\* ------------------------------------------------------------------------
\* Faulty variant of InitialScores: admin is not skipped.
InitialScoresWithAdmin(users_doc) ==
    [username \in KnownUsers(users_doc) |->
        [total_points |-> 0, weeks_played |-> 0,
         weekly_breakdown |-> EmptyDict, manual_adjustments |-> 0]]

\* "Initialize scores": every user but admin starts from zero
InitialScores(users_doc) ==
    [username \in KnownUsers(users_doc) \ {"admin"} |->
        [total_points |-> 0, weeks_played |-> 0,
         weekly_breakdown |-> EmptyDict, manual_adjustments |-> 0]]

\* Faulty variant of CompletedWeeks: the current week is scored too.
CompletedWeeksInclusive(week_now) == 1..week_now

\* range(1, current_week)
CompletedWeeks(week_now) == 1..(week_now - 1)

\* Faulty variant of UserPredictions: only the record shape is scored.
UserPredictionsRecordOnly(user_data) ==
    IF user_data.kind = "record" THEN [ok |-> TRUE, list |-> user_data.predictions]
    ELSE [ok |-> FALSE, list |-> <<>>]

\* "Handle both old and new prediction formats": the list to score, or
\* nothing (continue) for any other shape
UserPredictions(user_data) ==
    IF user_data.kind = "record" THEN [ok |-> TRUE, list |-> user_data.predictions]
    ELSE IF user_data.kind = "list" THEN [ok |-> TRUE, list |-> user_data.predictions]
    ELSE [ok |-> FALSE, list |-> <<>>]

\* Faulty variant of MatchLoop: every result row is scored against the user's
\* first prediction.
RECURSIVE MatchLoopFirstPrediction(_, _, _)
MatchLoopFirstPrediction(user_predictions, rows, i) ==
    IF i > Len(rows) THEN 0
    ELSE (IF Len(user_predictions) >= 1
          THEN calculate_points(user_predictions[1], rows[i]).value
          ELSE 0)
         + MatchLoopFirstPrediction(user_predictions, rows, i + 1)

\* "Calculate points for each match": for i, result_row in results.iterrows()
\* from row i on (rows are numbered from 1 here, from 0 in the code)
RECURSIVE MatchLoop(_, _, _)
MatchLoop(user_predictions, rows, i) ==
    IF i > Len(rows) THEN 0
    ELSE (IF i <= Len(user_predictions)
          THEN calculate_points(user_predictions[i], rows[i]).value
          ELSE 0)
         + MatchLoop(user_predictions, rows, i + 1)

\* Faulty variant of ScoreUser: total_points is assigned the week's points instead
\* of being increased by them.
ScoreUserOverwritesTotal(score, week, user_data, rows) ==
    LET up == UserPredictions(user_data)
    IN  IF ~up.ok THEN score
        ELSE LET week_points == MatchLoop(up.list, rows, 1)
             IN  [score EXCEPT
                    !.total_points = week_points,
                    !.weeks_played = @ + 1,
                    !.weekly_breakdown = (WeekKey(week) :> week_points) @@ @]

\* Faulty variant of ScoreUser: a week counts as played only when it brought
\* points.
ScoreUserCountsScoringWeeks(score, week, user_data, rows) ==
    LET up == UserPredictions(user_data)
    IN  IF ~up.ok THEN score
        ELSE LET week_points == MatchLoop(up.list, rows, 1)
             IN  [score EXCEPT
                    !.total_points = @ + week_points,
                    !.weeks_played = IF week_points > 0 THEN @ + 1 ELSE @,
                    !.weekly_breakdown = (WeekKey(week) :> week_points) @@ @]

\* the body of "if username in predictions" for one user
ScoreUser(score, week, user_data, rows) ==
    LET up == UserPredictions(user_data)
    IN  IF ~up.ok THEN score
        ELSE LET week_points == MatchLoop(up.list, rows, 1)
             IN  [score EXCEPT
                    !.total_points = @ + week_points,
                    !.weeks_played = @ + 1,
                    !.weekly_breakdown = (WeekKey(week) :> week_points) @@ @]

\* Faulty variant of ScoreWeek: a week without results is not skipped, its
\* predictions are scored against no rows.
ScoreWeekWithoutResults(scores, week, results_docs, predictions_docs) ==
    LET loaded == LoadResults(results_docs, week)
        week_predictions == LoadPredictions(predictions_docs, week)
    IN  IF DOMAIN week_predictions = {} THEN scores
        ELSE [username \in DOMAIN scores |->
                IF username \in DOMAIN week_predictions
                THEN ScoreUser(scores[username], week,
                               week_predictions[username], loaded.rows)
                ELSE scores[username]]

\* one iteration of "for week in range(1, current_week)"
ScoreWeek(scores, week, results_docs, predictions_docs) ==
    LET loaded == LoadResults(results_docs, week)
        week_predictions == LoadPredictions(predictions_docs, week)
    IN  IF loaded.is_none \/ Len(loaded.rows) = 0 THEN scores
        ELSE IF DOMAIN week_predictions = {} THEN scores
        ELSE [username \in DOMAIN scores |->
                IF username \in DOMAIN week_predictions
                THEN ScoreUser(scores[username], week,
                               week_predictions[username], loaded.rows)
                ELSE scores[username]]

\* the week loop from week on
RECURSIVE WeekLoop(_, _, _, _, _)
WeekLoop(scores, week, week_now, results_docs, predictions_docs) ==
    IF week \notin CompletedWeeks(week_now) THEN scores
    ELSE WeekLoop(ScoreWeek(scores, week, results_docs, predictions_docs),
                  week + 1, week_now, results_docs, predictions_docs)

\* Faulty variant of ApplyAdjustment: the delta reaches the manual_adjustments
\* subtotal but not total_points.
ApplyAdjustmentSubtotalOnly(scores, adjustment) ==
    IF adjustment.username \in DOMAIN scores
    THEN [scores EXCEPT
            ![adjustment.username].manual_adjustments = @ + adjustment.points_change]
    ELSE scores

\* Faulty variant of ApplyAdjustment: the delta reaches total_points but not
\* the manual_adjustments subtotal.
ApplyAdjustmentTotalOnly(scores, adjustment) ==
    IF adjustment.username \in DOMAIN scores
    THEN [scores EXCEPT
            ![adjustment.username].total_points = @ + adjustment.points_change]
    ELSE scores

\* the body of "for adjustment in all_adjustments"
ApplyAdjustment(scores, adjustment) ==
    IF adjustment.username \in DOMAIN scores
    THEN [scores EXCEPT
            ![adjustment.username].total_points = @ + adjustment.points_change,
            ![adjustment.username].manual_adjustments = @ + adjustment.points_change]
    ELSE scores

\* Faulty variant of AdjustmentLoop: only the latest entry of the log is
\* applied.
AdjustmentLoopLatestOnly(scores, all_adjustments, i) ==
    IF Len(all_adjustments) = 0 THEN scores
    ELSE ApplyAdjustment(scores, all_adjustments[Len(all_adjustments)])

\* "Add manual adjustments": the log from entry i on
RECURSIVE AdjustmentLoop(_, _, _)
AdjustmentLoop(scores, all_adjustments, i) ==
    IF i > Len(all_adjustments) THEN scores
    ELSE AdjustmentLoop(ApplyAdjustment(scores, all_adjustments[i]),
                        all_adjustments, i + 1)

calculate_user_scores(users_doc, week_now, results_docs, predictions_docs, log) ==
    AdjustmentLoop(
        WeekLoop(InitialScores(users_doc), 1, week_now, results_docs, predictions_docs),
        log, 1)

\* ------------------------------------------------------------------------
\* Spec: the store and its operations
\* ------------------------------------------------------------------------
\* a repository taken over from the older version of the program, in its
\* second week: alice and bob are registered, week 1 has results, and
\* alice's week 1 predictions are stored in the older format, a bare list
LegacyStore ==
    /\ users = <<"admin", "alice", "bob">>
    /\ current_week = 2
    /\ results = [w \in Weeks |->
                    IF w = 1 THEN [exists |-> TRUE, rows |-> <<R20, R10>>]
                    ELSE [exists |-> FALSE, rows |-> <<>>]]
    /\ predictions = [w \in Weeks |->
                        IF w = 1 THEN ("alice" :> ListEntry(<<P10>>))
                        ELSE EmptyDict]
    /\ adjustments = <<>>
    /\ commits = 0
    /\ revision = [NoRevisions EXCEPT !.predictions[1] = 1]
    /\ predictions_open = TRUE
    /\ unreadable = {}
    /\ missing = {}

\* the predictions documents as load_predictions(week) returns them
DecryptedPredictions ==
    [w \in DOMAIN predictions |->
        DecryptedOrEmpty(predictions[w], w \notin unreadable)]

Init ==
    /\ FreshStore \/ LegacyStore
    /\ user_scores = NoScores
    /\ leaderboard = NotRanked
    /\ sessions = NoSessions
    /\ call = NoCall
    /\ prediction = Prediction(0, 0)
    /\ actual_result = NoneResult
    /\ weights = ConfiguredWeights
    /\ points = NotCalled

\* _save_file_to_github succeeded: one more commit.  What an earlier
\* request computed does not survive into the request that writes.
Commit ==
    /\ commits < MaxCommits
    /\ commits' = commits + 1
    /\ user_scores' = NoScores
    /\ leaderboard' = NotRanked
    /\ call' = NoCall
    /\ UNCHANGED scoreVars

\* config.add_user: users[username] = {...}; a new key goes last, an
\* existing key keeps its place
AddUser(username) ==
    /\ Commit
    /\ users' = IF username \in KnownUsers(users) THEN users
                ELSE Append(users, username)
    /\ missing' = missing \ {"users"}
    /\ UNCHANGED <<current_week, results, predictions, adjustments>>
    /\ UNCHANGED <<revision, sessions>>
    /\ UNCHANGED <<predictions_open, unreadable>>

\* config.set_current_week
SetCurrentWeek(week_num) ==
    /\ Commit
    /\ current_week' = week_num
    /\ missing' = missing \ {"settings"}
    /\ UNCHANGED <<users, results, predictions, adjustments>>
    /\ UNCHANGED <<revision, sessions>>
    /\ UNCHANGED <<predictions_open, unreadable>>

\* save_results: the week's table is replaced
SaveResults(week_num, table) ==
    /\ Commit
    /\ results' = [results EXCEPT ![week_num] = [exists |-> TRUE, rows |-> table]]
    /\ UNCHANGED <<users, current_week, predictions, adjustments>>
    /\ UNCHANGED <<revision, sessions>>
    /\ UNCHANGED settingVars

\* save_predictions: all_predictions[username] = {"predictions": ...,
\* "submitted_at": ...} in the week's document.  The stored document, when
\* there is one, decrypts: encrypt_data wrote it under the same key.  A
\* call whose store write fails returns False and changes nothing.
SavePredictions(username, week_num, list) ==
    /\ Commit
    /\ predictions' = [predictions EXCEPT
                         ![week_num] =
                            (username :> RecordEntry(list))
                               @@ DecryptedOrEmpty(@, week_num \notin unreadable)]
    /\ unreadable' = unreadable \ {week_num}
    /\ revision' = [revision EXCEPT !.predictions[week_num] = @ + 1]
    /\ UNCHANGED <<users, current_week, results, adjustments>>
    /\ UNCHANGED <<sessions, predictions_open, missing>>

\* save_manual_adjustment: adjustments.append(adjustment)
SaveManualAdjustment(username, points_change) ==
    /\ Commit
    /\ adjustments' = Append(adjustments, Adjustment(username, points_change))
    /\ revision' = [revision EXCEPT !.adjustments = @ + 1]
    /\ UNCHANGED <<users, current_week, results, predictions>>
    /\ UNCHANGED sessions
    /\ UNCHANGED settingVars

\* a request calls calculate_user_scores
CalculateUserScores ==
    /\ user_scores' =
         [called |-> TRUE,
          scores |-> calculate_user_scores(users, current_week, results,
                                           DecryptedPredictions, adjustments)]
    /\ UNCHANGED storeVars
    /\ UNCHANGED scoreVars
    /\ UNCHANGED <<leaderboard, revision, sessions>>
    /\ UNCHANGED <<predictions_open, unreadable, missing, call>>

Next ==
    \/ \E username \in Usernames \ {"admin"} : AddUser(username)
    \/ \E week_num \in 1..(MaxWeek + 1) : SetCurrentWeek(week_num)
    \/ \E week_num \in Weeks, table \in ResultTables : SaveResults(week_num, table)
    \/ \E username \in Usernames, week_num \in Weeks, list \in PredictionLists :
            SavePredictions(username, week_num, list)
    \/ \E username \in Usernames, points_change \in PointsChanges :
            SaveManualAdjustment(username, points_change)
    \/ CalculateUserScores

Spec == Init /\ [][Next]_vars

\* ------------------------------------------------------------------------
\* Claims about calculate_user_scores (checked under Spec)
\* ------------------------------------------------------------------------
\* the sum of f over the finite set S of its arguments
RECURSIVE SumFn(_, _)
SumFn(f, S) ==
    IF S = {} THEN 0
    ELSE LET x == CHOOSE y \in S : TRUE
         IN  f[x] + SumFn(f, S \ {x})

Min(a, b) == IF a <= b THEN a ELSE b

\* the leaderboard the running request holds
Scores == user_scores.scores
Leaderboard == DOMAIN Scores

\* the sum of the points_change of the log entries naming username
AdjustmentSum(username) ==
    SumFn([i \in DOMAIN adjustments |-> adjustments[i].points_change],
          { i \in DOMAIN adjustments : adjustments[i].username = username })

\* week has a results table with at least one row
HasResults(week) == week \in Weeks /\ results[week].exists /\ Len(results[week].rows) > 0

\* username has an entry in week's predictions document
HasEntry(username, week) == week \in Weeks /\ username \in DOMAIN predictions[week]

\* the points of username's stored predictions against week's results: the
\* matches at the positions both lists have
WeekPointsOf(username, week) ==
    IF HasResults(week) /\ HasEntry(username, week)
    THEN LET list == predictions[week][username].predictions
             rows == results[week].rows
             both == 1..Min(Len(list), Len(rows))
         IN  SumFn([i \in both |-> calculate_points(list[i], rows[i]).value], both)
    ELSE 0

\* C1: after calculate_user_scores, every leaderboard user's total_points
\* is the sum of that user's weekly_breakdown values plus the sum of
\* points_change over the log entries naming the user.
C1_TotalIsBreakdownPlusAdjustments ==
    user_scores.called =>
        \A username \in Leaderboard :
            Scores[username].total_points
                = SumFn(Scores[username].weekly_breakdown,
                        DOMAIN Scores[username].weekly_breakdown)
                  + AdjustmentSum(username)

\* C1 witness: a leaderboard user whose breakdown sum and whose adjustment
\* sum are both non-zero.
C1_Witness ==
    /\ user_scores.called
    /\ \E username \in Leaderboard :
        /\ SumFn(Scores[username].weekly_breakdown,
                 DOMAIN Scores[username].weekly_breakdown) > 0
        /\ AdjustmentSum(username) # 0
        /\ Scores[username].total_points
             = SumFn(Scores[username].weekly_breakdown,
                     DOMAIN Scores[username].weekly_breakdown)
               + AdjustmentSum(username)

\* C7: for each scored week and each leaderboard user with an entry in that
\* week's predictions document, the week's points are the sum of
\* calculate_points(prediction[i], result[i]) over exactly the positions
\* both lists have: result rows without a prediction and predictions beyond
\* the results count for nothing.
C7_WeekPointsOverCommonPositions ==
    user_scores.called =>
        \A username \in Leaderboard : \A week \in CompletedWeeks(current_week) :
            (HasResults(week) /\ HasEntry(username, week)) =>
                /\ WeekKey(week) \in DOMAIN Scores[username].weekly_breakdown
                /\ Scores[username].weekly_breakdown[WeekKey(week)]
                     = WeekPointsOf(username, week)

\* C7 witness: in one scored week one user has fewer predictions than there
\* are results and another has more, and both got their week's points.
C7_Witness ==
    /\ user_scores.called
    /\ \E week \in CompletedWeeks(current_week) :
        /\ HasResults(week)
        /\ \E u1 \in Leaderboard, u2 \in Leaderboard :
            /\ HasEntry(u1, week) /\ HasEntry(u2, week)
            /\ Len(predictions[week][u1].predictions) < Len(results[week].rows)
            /\ Len(predictions[week][u2].predictions) > Len(results[week].rows)
            /\ Scores[u1].weekly_breakdown[WeekKey(week)] > 0
            /\ Scores[u2].weekly_breakdown[WeekKey(week)] > 0

\* the weeks below week_now in which username was scored
ScoredWeeks(username, week_now) ==
    { week \in 1..(week_now - 1) : HasResults(week) /\ HasEntry(username, week) }

\* C8: calculate_user_scores reconciles exactly the weeks 1..current_week-1:
\* a week >= current_week has no weekly_breakdown entry, is not counted in
\* weeks_played and adds nothing to the week-derived points, even when it
\* has results; with current_week = 1 no week is scored.
C8_OnlyWeeksBeforeCurrent ==
    user_scores.called =>
        \A username \in Leaderboard :
            /\ DOMAIN Scores[username].weekly_breakdown
                 = { WeekKey(week) : week \in ScoredWeeks(username, current_week) }
            /\ Scores[username].weeks_played
                 = Cardinality(ScoredWeeks(username, current_week))
            /\ Scores[username].total_points - Scores[username].manual_adjustments
                 = SumFn([week \in 1..(current_week - 1) |-> WeekPointsOf(username, week)],
                         1..(current_week - 1))

\* C8 witness: the current week has results and a leaderboard user's
\* predictions worth points, an earlier week was scored for that user, and
\* the user's breakdown holds the earlier week only.
C8_Witness ==
    /\ user_scores.called
    /\ current_week \in Weeks
    /\ \E username \in Leaderboard :
        /\ WeekPointsOf(username, current_week) > 0
        /\ ScoredWeeks(username, current_week) # {}
        /\ WeekKey(current_week) \notin DOMAIN Scores[username].weekly_breakdown
        /\ Scores[username].weeks_played = Cardinality(ScoredWeeks(username, current_week))

\* C9 (as claimed): a user's total is the sum of the user's week points
\* over the weeks 1..current_week, current_week included, that have a
\* result, plus the sum of the user's manual adjustment deltas.
C9_TotalThroughCurrentWeek ==
    user_scores.called =>
        \A username \in Leaderboard :
            Scores[username].total_points
                = SumFn([week \in 1..current_week |-> WeekPointsOf(username, week)],
                        { week \in 1..current_week : HasResults(week) })
                  + AdjustmentSum(username)

\* C9 (amended): a user's total is the sum of the user's week points over
\* the weeks 1..current_week-1 that have a result, plus the sum of the
\* user's manual adjustment deltas; the current week is not counted.
C9_TotalThroughPreviousWeek ==
    user_scores.called =>
        \A username \in Leaderboard :
            Scores[username].total_points
                = SumFn([week \in 1..(current_week - 1) |-> WeekPointsOf(username, week)],
                        { week \in 1..(current_week - 1) : HasResults(week) })
                  + AdjustmentSum(username)

\* C9 witness: two weeks before the current one gave a user points, and the
\* total is their sum plus the user's adjustments.
C9_Witness ==
    /\ user_scores.called
    /\ \E username \in Leaderboard :
        /\ Cardinality({ week \in 1..(current_week - 1) :
                            WeekPointsOf(username, week) > 0 }) >= 2
        /\ Scores[username].total_points
             = SumFn([week \in 1..(current_week - 1) |-> WeekPointsOf(username, week)],
                     1..(current_week - 1))
               + AdjustmentSum(username)

\* username has no prediction entry in any week and no adjustment
NeverPlayed(username) ==
    /\ \A week \in Weeks : ~HasEntry(username, week)
    /\ \A i \in DOMAIN adjustments : adjustments[i].username # username

\* C10: the leaderboard's usernames are exactly the known users without
\* "admin": every known non-admin user is there, with zero totals when the
\* user has no predictions and no adjustments, and "admin" is not, whatever
\* predictions or adjustments it has.
C10_LeaderboardIsUsersWithoutAdmin ==
    user_scores.called =>
        /\ Leaderboard = KnownUsers(users) \ {"admin"}
        /\ \A username \in Leaderboard :
            NeverPlayed(username) =>
                /\ Scores[username].total_points = 0
                /\ Scores[username].weeks_played = 0
                /\ Scores[username].weekly_breakdown = EmptyDict
                /\ Scores[username].manual_adjustments = 0

\* C10 witness: admin has predictions in a scored week and an adjustment
\* in the log, a registered user has neither, and the leaderboard holds
\* that user with zero totals and not admin.
C10_Witness ==
    /\ user_scores.called
    /\ \E week \in CompletedWeeks(current_week) :
            HasResults(week) /\ HasEntry("admin", week)
    /\ \E i \in DOMAIN adjustments : adjustments[i].username = "admin"
    /\ "admin" \in KnownUsers(users)
    /\ "admin" \notin Leaderboard
    /\ \E username \in Leaderboard :
            NeverPlayed(username) /\ Scores[username].total_points = 0

\* the sum of the values of a weekly_breakdown
BreakdownSum(breakdown) == SumFn(breakdown, DOMAIN breakdown)

\* C11: a week whose results document is absent or has no rows adds no
\* weekly_breakdown entry, no weeks_played increment and nothing to
\* total_points for any user, whatever predictions exist for it.
C11_NoResultsNoContribution ==
    user_scores.called =>
        \A username \in Leaderboard :
            /\ DOMAIN Scores[username].weekly_breakdown
                 \subseteq { WeekKey(week) : week \in { w \in Weeks : HasResults(w) } }
            /\ Scores[username].weeks_played
                 <= Cardinality({ w \in Weeks : HasResults(w) })
            /\ Scores[username].total_points - Scores[username].manual_adjustments
                 = BreakdownSum(Scores[username].weekly_breakdown)

\* C11 witness: of two weeks before the current one, one has a results
\* table without rows and the other no results document; a leaderboard
\* user has predictions for both and was given no week.
C11_Witness ==
    /\ user_scores.called
    /\ \E w1 \in CompletedWeeks(current_week), w2 \in CompletedWeeks(current_week) :
        /\ w1 \in Weeks /\ results[w1].exists /\ Len(results[w1].rows) = 0
        /\ w2 \in Weeks /\ ~results[w2].exists
        /\ \E username \in Leaderboard :
            /\ HasEntry(username, w1) /\ HasEntry(username, w2)
            /\ Scores[username].weeks_played = 0
            /\ Scores[username].weekly_breakdown = EmptyDict
            /\ Scores[username].total_points = 0

\* C12: a user without an entry in a week's predictions document gets no
\* weekly_breakdown entry for that week; a user with an entry in a week
\* before the current one that has results gets one, possibly 0; and
\* weeks_played is the number of weekly_breakdown entries, one per such week.
C12_PlayedWeeksAreBreakdownEntries ==
    user_scores.called =>
        \A username \in Leaderboard :
            /\ \A week \in Weeks :
                ~HasEntry(username, week) =>
                    WeekKey(week) \notin DOMAIN Scores[username].weekly_breakdown
            /\ \A week \in ScoredWeeks(username, current_week) :
                WeekKey(week) \in DOMAIN Scores[username].weekly_breakdown
            /\ Scores[username].weeks_played
                 = Cardinality(DOMAIN Scores[username].weekly_breakdown)
            /\ Scores[username].weeks_played
                 = Cardinality(ScoredWeeks(username, current_week))

\* C12 witness: in a scored week with results one user has predictions that
\* bring 0 points, and has the week's entry and one week played, and another
\* user has no predictions and has neither.
C12_Witness ==
    /\ user_scores.called
    /\ \E week \in CompletedWeeks(current_week) :
        /\ HasResults(week)
        /\ \E played \in Leaderboard, absent \in Leaderboard :
            /\ HasEntry(played, week)
            /\ Scores[played].weekly_breakdown = (WeekKey(week) :> 0)
            /\ Scores[played].weeks_played = 1
            /\ ~HasEntry(absent, week)
            /\ Scores[absent].weekly_breakdown = EmptyDict
            /\ Scores[absent].weeks_played = 0

\* username's weekly_breakdown.get(week key), as a set: empty without entry
BreakdownEntry(username, week) ==
    IF WeekKey(week) \in DOMAIN Scores[username].weekly_breakdown
    THEN { Scores[username].weekly_breakdown[WeekKey(week)] }
    ELSE {}

\* the weeks for which username has predictions stored, with the lists
StoredLists(username) ==
    [week \in { w \in Weeks : HasEntry(username, w) } |->
        predictions[week][username].predictions]

\* C13: the shape of a stored entry does not matter: two users whose entries
\* for a week hold the same prediction list, one as a bare list and one as
\* a record with "predictions", get the same weekly_breakdown entry for the
\* week; with the same lists in every week they get the same weeks_played
\* and the same weekly_breakdown.
C13_BareListScoresAsRecord ==
    user_scores.called =>
        \A u1 \in Leaderboard, u2 \in Leaderboard :
            /\ \A week \in Weeks :
                ( /\ HasEntry(u1, week) /\ HasEntry(u2, week)
                  /\ predictions[week][u1].predictions = predictions[week][u2].predictions )
                => BreakdownEntry(u1, week) = BreakdownEntry(u2, week)
            /\ StoredLists(u1) = StoredLists(u2) =>
                /\ Scores[u1].weeks_played = Scores[u2].weeks_played
                /\ Scores[u1].weekly_breakdown = Scores[u2].weekly_breakdown

\* C13 witness: in a scored week one user's entry is a bare list and
\* another's a record with the same list, and both have the week's
\* entry with the same points, more than 0, and one week played.
C13_Witness ==
    /\ user_scores.called
    /\ \E week \in CompletedWeeks(current_week), u1 \in Leaderboard, u2 \in Leaderboard :
        /\ HasResults(week) /\ HasEntry(u1, week) /\ HasEntry(u2, week)
        /\ predictions[week][u1].kind = "list"
        /\ predictions[week][u2].kind = "record"
        /\ predictions[week][u1].predictions = predictions[week][u2].predictions
        /\ BreakdownEntry(u1, week) = BreakdownEntry(u2, week)
        /\ \E week_points \in BreakdownEntry(u1, week) : week_points > 0
        /\ Scores[u1].weeks_played = 1 /\ Scores[u2].weeks_played = 1

\* the log entries that name a leaderboard user, in log order
EntriesOfLeaderboardUsers ==
    LET Named(adjustment) == adjustment.username \in Leaderboard
    IN  SelectSeq(adjustments, Named)

\* the positions of the log entries that name username
EntriesNaming(username) ==
    { i \in DOMAIN adjustments : adjustments[i].username = username }

\* C14: every log entry naming a leaderboard user adds its points_change to
\* that user's total_points and manual_adjustments, so manual_adjustments is
\* the sum of the user's deltas and total_points is the week points plus
\* that sum; entries naming "admin" or an unknown user change nothing: the
\* scores are those of the log without them.
C14_AdjustmentsAreSummedPerUser ==
    user_scores.called =>
        /\ \A username \in Leaderboard :
            /\ Scores[username].manual_adjustments = AdjustmentSum(username)
            /\ Scores[username].total_points
                 = SumFn([week \in Weeks |-> WeekPointsOf(username, week)],
                         ScoredWeeks(username, current_week))
                   + AdjustmentSum(username)
        /\ Scores = calculate_user_scores(users, current_week, results,
                                          predictions, EntriesOfLeaderboardUsers)

\* C14 witness: the log has two entries naming one leaderboard user, whose
\* manual_adjustments is their non-zero sum, and an entry naming "admin" or
\* an unknown user.
C14_Witness ==
    /\ user_scores.called
    /\ \E i \in DOMAIN adjustments : adjustments[i].username \notin Leaderboard
    /\ \E username \in Leaderboard :
        /\ Cardinality(EntriesNaming(username)) = 2
        /\ Scores[username].manual_adjustments = AdjustmentSum(username)
        /\ Scores[username].manual_adjustments # 0

\* the log without its last entry: the log that save_manual_adjustment read
\* when it appended that entry
LogBeforeLast == SubSeq(adjustments, 1, Len(adjustments) - 1)

\* the scores calculate_user_scores gives for the store with LogBeforeLast
ScoresBeforeLast ==
    calculate_user_scores(users, current_week, results, predictions, LogBeforeLast)

\* C15: with the delta d for a leaderboard user u appended to the log by
\* save_manual_adjustment, u's recomputed total_points is exactly d above
\* the one recomputed from the log before the append, u's weekly_breakdown
\* and weeks_played are the same, and so is every other user's entry.
C15_AdjustmentMovesOneTotal ==
    (user_scores.called /\ Len(adjustments) > 0) =>
        LET last == adjustments[Len(adjustments)]
            u == last.username
            d == last.points_change
        IN  /\ DOMAIN Scores = DOMAIN ScoresBeforeLast
            /\ \A username \in Leaderboard :
                IF username = u
                THEN /\ Scores[u].total_points = ScoresBeforeLast[u].total_points + d
                     /\ Scores[u].weekly_breakdown = ScoresBeforeLast[u].weekly_breakdown
                     /\ Scores[u].weeks_played = ScoresBeforeLast[u].weeks_played
                ELSE Scores[username] = ScoresBeforeLast[username]

\* C15 witness: the log's last entry gives d to a leaderboard user who has
\* played a week, an earlier entry names another leaderboard user, and the
\* scores computed after the append have the first user's total d above
\* the one computed from the log before it.
C15_Witness ==
    /\ user_scores.called
    /\ Len(adjustments) >= 2
    /\ LET last == adjustments[Len(adjustments)]
       IN  /\ last.username \in Leaderboard
           /\ Scores[last.username].weeks_played > 0
           /\ Scores[last.username].total_points
                = ScoresBeforeLast[last.username].total_points + last.points_change
           /\ \E other \in Leaderboard \ {last.username} :
                /\ Scores[other].manual_adjustments # 0
                /\ Scores[other] = ScoresBeforeLast[other]

\* ------------------------------------------------------------------------
\* get_leaderboard
\* ------------------------------------------------------------------------
\* user_scores.items(): calculate_user_scores inserts the keys while it
\* iterates over the users document, so the items come in document order
ScoreItems(users_doc, scores) ==
    LET OnLeaderboard(username) == username \in DOMAIN scores
    IN  SelectSeq(users_doc, OnLeaderboard)

\* round(x, 2) of the quotient num / den, in hundredths: the nearest
\* hundredth, and the even one of two equally near (with den <= 7 no
\* quotient lies halfway between two hundredths)
RoundHundredths(num, den) ==
    LET q == (200 * num + den) \div (2 * den)
        halfway == (200 * num + den) % (2 * den) = 0
    IN  IF halfway /\ q % 2 # 0 THEN q - 1 ELSE q

\* Faulty variant of AveragePoints: a user who has played no week has the
\* average 0.
AveragePointsZeroUnplayed(total_points, weeks_played) ==
    IF weeks_played = 0 THEN 0
    ELSE RoundHundredths(total_points, weeks_played)

\* round(total_points / max(weeks_played, 1), 2), in hundredths
AveragePoints(total_points, weeks_played) ==
    RoundHundredths(total_points, IF weeks_played > 1 THEN weeks_played ELSE 1)

\* weekly_breakdown.get(f"week_{previous_week}", 0) when current_week > 1
CurrentWeekPoints(weekly_breakdown, week_now) ==
    IF week_now > 1 /\ WeekKey(week_now - 1) \in DOMAIN weekly_breakdown
    THEN weekly_breakdown[WeekKey(week_now - 1)]
    ELSE 0

\* the dict appended to leaderboard for one user; average_points is kept
\* in hundredths
LeaderboardEntry(username, data, week_now) ==
    [username |-> username,
     total_points |-> data.total_points,
     weeks_played |-> data.weeks_played,
     average_points |-> AveragePoints(data.total_points, data.weeks_played),
     current_week_points |-> CurrentWeekPoints(data.weekly_breakdown, week_now),
     weekly_breakdown |-> data.weekly_breakdown,
     manual_adjustments |-> data.manual_adjustments]

\* Faulty variant of InsertDescending: smaller totals go first.
RECURSIVE InsertAscending(_, _)
InsertAscending(sorted, entry) ==
    IF sorted = <<>> THEN <<entry>>
    ELSE IF Head(sorted).total_points <= entry.total_points
         THEN <<Head(sorted)>> \o InsertAscending(Tail(sorted), entry)
         ELSE <<entry>> \o sorted

\* Faulty variant of InsertDescending: an entry goes before the entries of
\* the same total that came earlier.
RECURSIVE InsertBeforeEqual(_, _)
InsertBeforeEqual(sorted, entry) ==
    IF sorted = <<>> THEN <<entry>>
    ELSE IF Head(sorted).total_points > entry.total_points
         THEN <<Head(sorted)>> \o InsertBeforeEqual(Tail(sorted), entry)
         ELSE <<entry>> \o sorted

\* where sorted(..., reverse=True) puts an entry among those that came
\* before it in the list: behind every entry whose total_points is not
\* smaller (the sort is stable, also with reverse=True)
RECURSIVE InsertDescending(_, _)
InsertDescending(sorted, entry) ==
    IF sorted = <<>> THEN <<entry>>
    ELSE IF Head(sorted).total_points >= entry.total_points
         THEN <<Head(sorted)>> \o InsertDescending(Tail(sorted), entry)
         ELSE <<entry>> \o sorted

\* sorted(leaderboard, key=lambda x: x["total_points"], reverse=True): the
\* first i entries of the list, sorted
RECURSIVE SortedByTotal(_, _)
SortedByTotal(entries, i) ==
    IF i = 0 THEN <<>>
    ELSE InsertDescending(SortedByTotal(entries, i - 1), entries[i])

get_leaderboard(users_doc, week_now, results_docs, predictions_docs, log) ==
    LET scores == calculate_user_scores(users_doc, week_now, results_docs,
                                        predictions_docs, log)
        items == ScoreItems(users_doc, scores)
        entries == [i \in DOMAIN items |->
                      LeaderboardEntry(items[i], scores[items[i]], week_now)]
    IN  SortedByTotal(entries, Len(entries))

\* ------------------------------------------------------------------------
\* SpecRank: get_leaderboard over the stores of a season of MaxPlayed weeks
\* ------------------------------------------------------------------------
RankWeeks == 1..MaxPlayed
RankUsers == {"alice", "bob", "carol"}

\* the orders in which the three users can have been registered after admin
RegistrationOrders ==
    { <<"admin", u1, u2, u3>> : u1 \in RankUsers, u2 \in RankUsers, u3 \in RankUsers }
        \ { order \in { <<"admin", u1, u2, u3>> :
                          u1 \in RankUsers, u2 \in RankUsers, u3 \in RankUsers } :
              Cardinality(KnownUsers(order)) < 4 }

\* what a user has submitted over the season, week -> list: nothing; week 1
\* only (1 point); every week, for 1 point in all; every week, exact from
\* week 2 on
SeasonForms ==
    { [w \in {} |-> <<>>],
      [w \in {1} |-> <<P10>>],
      [w \in RankWeeks |-> IF w = 1 THEN <<P10>> ELSE <<P11>>],
      [w \in RankWeeks |-> <<P10>>] }

\* the manual adjustment a user has been given, 0 for none
SeasonDeltas == { -2, 0, 3 }

\* the week documents that hold the forms, forms: username -> season form
SeasonPredictions(forms) ==
    [w \in RankWeeks |->
        [username \in { u \in DOMAIN forms : w \in DOMAIN forms[u] } |->
            RecordEntry(forms[username][w])]]

\* the log that holds the deltas, in the order of users_doc
SeasonLog(users_doc, deltas) ==
    LET Given(username) == username \in DOMAIN deltas /\ deltas[username] # 0
        named == SelectSeq(users_doc, Given)
    IN  [i \in DOMAIN named |-> Adjustment(named[i], deltas[named[i]])]

\* the season is over: every week has its result, 2-0 in week 1 and 1-0
\* after it, and the current week is the one after the last
InitRank ==
    /\ users \in RegistrationOrders
    /\ current_week = MaxPlayed + 1
    /\ results = [w \in RankWeeks |->
                    [exists |-> TRUE, rows |-> IF w = 1 THEN <<R20>> ELSE <<R10>>]]
    /\ \E forms \in [RankUsers -> SeasonForms], deltas \in [RankUsers -> SeasonDeltas] :
        /\ predictions = SeasonPredictions(forms)
        /\ adjustments = SeasonLog(users, deltas)
    /\ commits = 0
    /\ revision = NoRevisions
    /\ predictions_open = TRUE
    /\ unreadable = {}
    /\ missing = {}
    /\ call = NoCall
    /\ sessions = NoSessions
    /\ user_scores = NoScores
    /\ leaderboard = NotRanked
    /\ prediction = Prediction(0, 0)
    /\ actual_result = NoneResult
    /\ weights = ConfiguredWeights
    /\ points = NotCalled

\* a request calls get_leaderboard
GetLeaderboard ==
    /\ ~leaderboard.called
    /\ leaderboard' =
         [called |-> TRUE,
          entries |-> get_leaderboard(users, current_week, results,
                                      DecryptedPredictions, adjustments)]
    /\ UNCHANGED storeVars
    /\ UNCHANGED scoreVars
    /\ UNCHANGED <<user_scores, revision, sessions>>
    /\ UNCHANGED <<predictions_open, unreadable, missing, call>>

NextRank == GetLeaderboard

SpecRank == InitRank /\ [][NextRank]_vars

\* ------------------------------------------------------------------------
\* Claims about get_leaderboard (checked under SpecRank)
\* ------------------------------------------------------------------------
Entries == leaderboard.entries

\* C16: the list get_leaderboard returns is sorted by total_points in
\* non-increasing order: of two adjacent entries the earlier has a
\* total_points at least the later's, negative totals included; and the
\* list has one entry for every user calculate_user_scores scored.
C16_SortedByTotalDescending ==
    leaderboard.called =>
        /\ \A i \in 1..(Len(Entries) - 1) :
            Entries[i].total_points >= Entries[i + 1].total_points
        /\ Len(Entries) = Cardinality(KnownUsers(users) \ {"admin"})
        /\ { Entries[i].username : i \in DOMAIN Entries } = KnownUsers(users) \ {"admin"}

\* C16 witness: a ranked list with three different totals, the last of
\* them negative, whose users were registered in another order.
C16_Witness ==
    /\ leaderboard.called
    /\ Len(Entries) = 3
    /\ Entries[1].total_points > Entries[2].total_points
    /\ Entries[2].total_points > Entries[3].total_points
    /\ Entries[3].total_points < 0
    /\ users[2] = Entries[3].username

\* the place of username in the users document
RegistrationIndex(username) ==
    CHOOSE i \in DOMAIN users : users[i] = username

\* C17: the ranking is deterministic and stable: get_leaderboard run again
\* on the same store gives the same list, and of two entries with equal
\* total_points the user registered earlier in the users document comes
\* first, however the totals came about.
C17_TiesInRegistrationOrder ==
    leaderboard.called =>
        /\ Entries = get_leaderboard(users, current_week, results,
                                     predictions, adjustments)
        /\ \A i \in DOMAIN Entries, j \in DOMAIN Entries :
            (i < j /\ Entries[i].total_points = Entries[j].total_points)
                => RegistrationIndex(Entries[i].username)
                     < RegistrationIndex(Entries[j].username)

\* C17 witness: carol, registered before alice, is ranked directly before
\* her with the same non-zero total, one of them having it from the weeks
\* alone and the other with a manual adjustment.
C17_Witness ==
    /\ leaderboard.called
    /\ \E i \in 1..(Len(Entries) - 1) :
        /\ Entries[i].username = "carol"
        /\ Entries[i + 1].username = "alice"
        /\ RegistrationIndex("carol") < RegistrationIndex("alice")
        /\ Entries[i].total_points = Entries[i + 1].total_points
        /\ Entries[i].total_points # 0
        /\ Entries[i].manual_adjustments # Entries[i + 1].manual_adjustments

\* max(weeks_played, 1) of a leaderboard entry
Divisor(entry) == IF entry.weeks_played > 1 THEN entry.weeks_played ELSE 1

\* C18 as stated: average_points is the quotient total_points /
\* max(weeks_played, 1) itself (average_points is in hundredths).
C18_AverageIsQuotient ==
    leaderboard.called =>
        \A i \in DOMAIN Entries :
            Entries[i].average_points * Divisor(Entries[i])
                = 100 * Entries[i].total_points

\* C18 amended: average_points is total_points / max(weeks_played, 1)
\* rounded to two decimals: it is a whole number of hundredths at most half
\* a hundredth from the quotient; a user with weeks_played = 0 has
\* average_points equal to total_points, whatever the total; the divisor
\* is never 0.
C18_AverageIsRoundedQuotient ==
    leaderboard.called =>
        \A i \in DOMAIN Entries :
            LET diff == 100 * Entries[i].total_points
                          - Entries[i].average_points * Divisor(Entries[i])
            IN  /\ Divisor(Entries[i]) >= 1
                /\ 2 * diff <= Divisor(Entries[i])
                /\ 2 * diff >= 0 - Divisor(Entries[i])
                /\ Entries[i].weeks_played = 0 =>
                     Entries[i].average_points = 100 * Entries[i].total_points

\* C18 witness: one entry has no week played and a non-zero total from a
\* manual adjustment, which is its average, and another has an average
\* that is not the quotient but the quotient rounded.
C18_Witness ==
    /\ leaderboard.called
    /\ \E i \in DOMAIN Entries :
        /\ Entries[i].weeks_played = 0
        /\ Entries[i].total_points # 0
        /\ Entries[i].average_points = 100 * Entries[i].total_points
    /\ \E i \in DOMAIN Entries :
        /\ Entries[i].weeks_played > 1
        /\ Entries[i].average_points * Entries[i].weeks_played
             # 100 * Entries[i].total_points

\* ------------------------------------------------------------------------
\* SpecConc: two sessions save against the store at the same time
\* ------------------------------------------------------------------------
\* who is logged in in each session; both are registered in LegacyStore,
\* and both have been made admins
SessionUser == [s \in Sessions |-> IF s = "s1" THEN "alice" ELSE "bob"]

\* the lists the sessions submit, the user their adjustments are for and
\* the points each of them gives or takes
ConcLists == { <<P10>>, <<P11, P10>> }
ConcTarget == "alice"
SessionDelta == [s \in Sessions |-> IF s = "s1" THEN -2 ELSE 3]

\* Faulty variant of RequestSha: the save sends the sha the store holds at
\* the time of the PUT.
RequestShaLatest(read_sha, stored_sha) == stored_sha

\* data['sha'] of the PUT request: the sha that the save got from
\* _get_file_from_github, none (0) when the document was absent, whatever
\* the store holds by the time of the PUT
RequestSha(read_sha, stored_sha) == read_sha

\* the store's answer to a PUT: it takes the content when the request's
\* sha is the one it holds (none for a document it does not hold), and
\* answers 409 or 422 otherwise
StoreAccepts(request_sha, stored_sha) == request_sha = stored_sha

\* Faulty variant of AppendedLog: the log written holds the new entry only.
AppendedLogOnlyNew(log, adjustment) == <<adjustment>>

\* save_manual_adjustment: adjustments.append(adjustment) on the log read
AppendedLog(log, adjustment) == Append(log, adjustment)

\* save_predictions: all_predictions[username] = {...} on the document read
UpdatedPredictions(document, username, list) ==
    (username :> RecordEntry(list)) @@ document

InitConc ==
    /\ LegacyStore
    /\ sessions = NoSessions
    /\ call = NoCall
    /\ user_scores = NoScores
    /\ leaderboard = NotRanked
    /\ prediction = Prediction(0, 0)
    /\ actual_result = NoneResult
    /\ weights = ConfiguredWeights
    /\ points = NotCalled

\* what the page shows after the save: prediction_form calls
\* save_predictions, drops what it returns and shows st.success;
\* score_management_panel shows st.success or st.error by what
\* save_manual_adjustment returned
PageMessage(op, value) ==
    IF op = "save_predictions" THEN "success"
    ELSE IF value THEN "success" ELSE "error"

\* the save of session s returns value: the content it read is dropped, its
\* arguments and the sha it read stay for the rest of the request
Returned(s, value) ==
    [sessions EXCEPT ![s].pc = "done", ![s].returned = value,
                     ![s].message = PageMessage(sessions[s].op, value),
                     ![s].log = <<>>, ![s].document = EmptyDict]

\* what a step of a save that writes nothing leaves alone
NothingWritten ==
    /\ UNCHANGED storeVars
    /\ UNCHANGED scoreVars
    /\ UNCHANGED <<user_scores, leaderboard, revision>>
    /\ UNCHANGED <<predictions_open, unreadable, missing, call>>

\* save_manual_adjustment up to its GET: content, sha of the log
ReadAdjustments(s) ==
    /\ sessions[s].pc = "idle"
    /\ sessions' = [sessions EXCEPT ![s] =
                      [IdleSession EXCEPT
                         !.pc = "read", !.op = "save_manual_adjustment",
                         !.username = ConcTarget, !.points_change = SessionDelta[s],
                         !.log = adjustments, !.sha = revision.adjustments]]
    /\ NothingWritten

\* save_predictions up to its GET: content, sha of the week's document
ReadPredictions(s, week_num, list) ==
    /\ sessions[s].pc = "idle"
    /\ sessions' = [sessions EXCEPT ![s] =
                      [IdleSession EXCEPT
                         !.pc = "read", !.op = "save_predictions",
                         !.username = SessionUser[s], !.week_num = week_num,
                         !.list = list,
                         !.document =
                            DecryptedOrEmpty(predictions[week_num],
                                             week_num \notin unreadable),
                         !.sha = revision.predictions[week_num]]]
    /\ NothingWritten

\* save_manual_adjustment from its PUT on: the store takes the log and the
\* call returns True, or it answers with an error status, raise_for_status
\* raises and the call returns False
PutAdjustments(s) ==
    /\ sessions[s].pc = "read"
    /\ sessions[s].op = "save_manual_adjustment"
    /\ IF StoreAccepts(RequestSha(sessions[s].sha, revision.adjustments),
                       revision.adjustments)
       THEN /\ Commit
            /\ adjustments' =
                 AppendedLog(sessions[s].log,
                             Adjustment(sessions[s].username, sessions[s].points_change))
            /\ revision' = [revision EXCEPT !.adjustments = @ + 1]
            /\ sessions' = Returned(s, TRUE)
            /\ UNCHANGED <<users, current_week, results, predictions>>
            /\ UNCHANGED settingVars
       ELSE /\ sessions' = Returned(s, FALSE)
            /\ NothingWritten

\* save_predictions from its PUT on
PutPredictions(s) ==
    /\ sessions[s].pc = "read"
    /\ sessions[s].op = "save_predictions"
    /\ LET week_num == sessions[s].week_num
       IN  IF StoreAccepts(RequestSha(sessions[s].sha, revision.predictions[week_num]),
                           revision.predictions[week_num])
           THEN /\ Commit
                /\ predictions' =
                     [predictions EXCEPT ![week_num] =
                        UpdatedPredictions(sessions[s].document,
                                           sessions[s].username, sessions[s].list)]
                /\ revision' = [revision EXCEPT !.predictions[week_num] = @ + 1]
                /\ sessions' = Returned(s, TRUE)
                /\ unreadable' = unreadable \ {week_num}
                /\ UNCHANGED <<users, current_week, results, adjustments>>
                /\ UNCHANGED <<predictions_open, missing>>
           ELSE /\ sessions' = Returned(s, FALSE)
                /\ NothingWritten

\* the PUT does not reach the store or the store answers with a server
\* error: requests raises, the save returns False
RequestFails(s) ==
    /\ sessions[s].pc = "read"
    /\ sessions' = Returned(s, FALSE)
    /\ NothingWritten

\* the request of the session is over
Finish(s) ==
    /\ sessions[s].pc = "done"
    /\ sessions' = [sessions EXCEPT ![s] = IdleSession]
    /\ NothingWritten

NextConc ==
    \/ \E s \in Sessions : ReadAdjustments(s)
    \/ \E s \in Sessions, week_num \in Weeks, list \in ConcLists :
            ReadPredictions(s, week_num, list)
    \/ \E s \in Sessions : PutAdjustments(s)
    \/ \E s \in Sessions : PutPredictions(s)
    \/ \E s \in Sessions : RequestFails(s)
    \/ \E s \in Sessions : Finish(s)

SpecConc == InitConc /\ [][NextConc]_vars

\* ------------------------------------------------------------------------
\* Claims about concurrent saves (checked under SpecConc)
\* ------------------------------------------------------------------------
\* log is log_after without some entries at its end
IsPrefix(log, log_after) ==
    /\ Len(log) <= Len(log_after)
    /\ \A i \in DOMAIN log : log_after[i] = log[i]

\* session s is in the step of save_manual_adjustment that returns
ReturnsFromAdjustment(s) ==
    /\ sessions[s].op = "save_manual_adjustment"
    /\ sessions[s].pc = "read"
    /\ sessions'[s].pc = "done"

\* C19: the manual adjustment log is append-only under save_manual_adjustment
\* calls of two admins, interleaved in any way: every step leaves the
\* entries the log had in place, unmodified and in their order; a call
\* that returns True has made the log the one it read followed by exactly
\* its new entry, and a call that returns False has left the log unchanged.
C19_LogIsAppendOnly ==
    [][ /\ IsPrefix(adjustments, adjustments')
        /\ \A s \in Sessions :
            ReturnsFromAdjustment(s) =>
                IF sessions'[s].returned
                THEN adjustments' =
                       Append(sessions[s].log,
                              Adjustment(sessions[s].username,
                                         sessions[s].points_change))
                ELSE adjustments' = adjustments
      ]_vars

\* C19 witness: both admins read the same revision of the log, which had
\* an entry, one of the two calls returned True and the other False, and
\* the log is one entry longer than the one they read and ends with the
\* entry of the call that returned True.
C19_Witness ==
    \E s \in Sessions, t \in Sessions :
        /\ sessions[s].pc = "done" /\ sessions[t].pc = "done"
        /\ sessions[s].op = "save_manual_adjustment"
        /\ sessions[t].op = "save_manual_adjustment"
        /\ sessions[s].returned /\ ~sessions[t].returned
        /\ sessions[s].sha = sessions[t].sha
        /\ sessions[s].sha = Len(adjustments) - 1
        /\ Len(adjustments) >= 2
        /\ sessions[s].points_change # sessions[t].points_change
        /\ adjustments[Len(adjustments)]
             = Adjustment(sessions[s].username, sessions[s].points_change)

\* session s has finished a save_predictions call
SubmissionDone(s) ==
    sessions[s].pc = "done" /\ sessions[s].op = "save_predictions"

\* the week's document holds what session s submitted
SubmissionStored(s) ==
    /\ sessions[s].username \in DOMAIN predictions[sessions[s].week_num]
    /\ predictions[sessions[s].week_num][sessions[s].username]
         = RecordEntry(sessions[s].list)

\* C20: no submission is lost: when the submissions of two users have
\* finished, also when both read the week's document before either wrote
\* it, the document holds the predictions of every user whose
\* save_predictions returned True.
C20_NoSubmissionLost ==
    \A s \in Sessions :
        (SubmissionDone(s) /\ sessions[s].returned) => SubmissionStored(s)

\* C20 witness: two users submitted for the same week and both read the
\* same revision of its document; one call returned True and its
\* predictions are in the document, the other returned False and its
\* predictions are not.
C20_Witness ==
    \E s \in Sessions, t \in Sessions :
        /\ SubmissionDone(s) /\ SubmissionDone(t)
        /\ sessions[s].username # sessions[t].username
        /\ sessions[s].week_num = sessions[t].week_num
        /\ sessions[s].sha = sessions[t].sha
        /\ sessions[s].returned /\ SubmissionStored(s)
        /\ ~sessions[t].returned /\ ~SubmissionStored(t)

\* C21: a save_predictions call that did not reach the store (its PUT was
\* rejected for a stale sha, or failed) is surfaced as a failed save: the
\* page of the session does not show the success message for it.
C21_FailedSaveIsSurfaced ==
    \A s \in Sessions :
        (SubmissionDone(s) /\ ~sessions[s].returned)
            => sessions[s].message # "success"

\* ------------------------------------------------------------------------
\* SpecLoad: lookups and saves on predictions documents in any stored shape
\* ------------------------------------------------------------------------
\* username=None
NoUsername == ""

\* load_predictions(week_num, username) on the week's document: what it
\* returns and whether it shows st.error.  decrypt_data returning None
\* gives {} (or [] for a user) with the error shown; user_data.get on an
\* entry that is a bare list raises AttributeError, which the outer except
\* turns into [] with the error shown
load_predictions(document, exists, decrypts, username) ==
    IF exists /\ ~decrypts
    THEN [returned |-> IF username = NoUsername THEN EmptyDict ELSE <<>>,
          st_error |-> TRUE]
    ELSE LET all_predictions == IF exists THEN document ELSE EmptyDict
         IN  IF username = NoUsername
             THEN [returned |-> all_predictions, st_error |-> FALSE]
             ELSE IF username \notin DOMAIN all_predictions
             THEN [returned |-> <<>>, st_error |-> FALSE]
             ELSE IF all_predictions[username].kind = "record"
             THEN [returned |-> all_predictions[username].predictions,
                   st_error |-> FALSE]
             ELSE [returned |-> <<>>, st_error |-> TRUE]

\* has_user_predicted: len(load_predictions(week_num, username)) > 0
has_user_predicted(document, exists, decrypts, username) ==
    Len(load_predictions(document, exists, decrypts, username).returned) > 0

\* the week's predictions document is in the store
DocumentExists(week_num) == revision.predictions[week_num] > 0

\* the documents a week can hold: none; alice's entry as a bare list; that
\* and bob's as a record; both as records
StoredDocuments ==
    { EmptyDict,
      ("alice" :> ListEntry(<<P10>>)),
      ("alice" :> ListEntry(<<P10>>)) @@ ("bob" :> RecordEntry(<<P11, P10>>)),
      ("alice" :> RecordEntry(<<P11, P10>>)) @@ ("bob" :> RecordEntry(<<P10>>)) }

\* the users whose saves SpecLoad follows, and what they submit
LoadUsers == {"alice", "bob"}
LoadList == <<P10, P11, P10>>

\* every week has its result; each week's document is any of
\* StoredDocuments, and any of those present may have been written under
\* another key than the deployment has now
InitLoad ==
    /\ users = <<"admin", "alice", "bob">>
    /\ current_week = MaxWeek + 1
    /\ results = [w \in Weeks |-> [exists |-> TRUE, rows |-> <<R20, R10>>]]
    /\ predictions \in [Weeks -> StoredDocuments]
    /\ unreadable \in SUBSET { w \in Weeks : predictions[w] # EmptyDict }
    /\ missing = {}
    /\ revision = [NoRevisions EXCEPT
                     !.predictions = [w \in Weeks |->
                                        IF predictions[w] # EmptyDict THEN 1 ELSE 0]]
    /\ adjustments = <<>>
    /\ commits = 0
    /\ predictions_open = TRUE
    /\ sessions = NoSessions
    /\ call = NoCall
    /\ user_scores = NoScores
    /\ leaderboard = NotRanked
    /\ prediction = Prediction(0, 0)
    /\ actual_result = NoneResult
    /\ weights = ConfiguredWeights
    /\ points = NotCalled

\* what a call that only reads leaves alone
OnlyCalled ==
    /\ UNCHANGED storeVars
    /\ UNCHANGED scoreVars
    /\ UNCHANGED <<user_scores, leaderboard, revision, sessions>>
    /\ UNCHANGED <<predictions_open, unreadable, missing>>

\* a request calls load_predictions(week_num) or
\* load_predictions(week_num, username)
CallLoadPredictions(week_num, username) ==
    /\ call' = [op |-> "load_predictions", week_num |-> week_num,
                username |-> username,
                result |-> load_predictions(predictions[week_num],
                                            DocumentExists(week_num),
                                            week_num \notin unreadable,
                                            username)]
    /\ OnlyCalled

\* a request calls has_user_predicted(username, week_num)
CallHasUserPredicted(username, week_num) ==
    /\ call' = [op |-> "has_user_predicted", week_num |-> week_num,
                username |-> username,
                result |-> has_user_predicted(predictions[week_num],
                                              DocumentExists(week_num),
                                              week_num \notin unreadable,
                                              username)]
    /\ OnlyCalled

NextLoad ==
    \/ \E week_num \in Weeks, username \in LoadUsers \cup {NoUsername} :
            CallLoadPredictions(week_num, username)
    \/ \E week_num \in Weeks, username \in LoadUsers :
            CallHasUserPredicted(username, week_num)
    \/ \E week_num \in Weeks, username \in LoadUsers :
            SavePredictions(username, week_num, LoadList)
    \/ CalculateUserScores

SpecLoad == InitLoad /\ [][NextLoad]_vars

\* ------------------------------------------------------------------------
\* Claims about stored shapes and decryption (checked under SpecLoad)
\* ------------------------------------------------------------------------
\* the scores calculate_user_scores gives when the documents of the
\* unreadable weeks are absent
ScoresWithoutUnreadable ==
    calculate_user_scores(users, current_week, results,
                          [w \in Weeks |-> IF w \in unreadable THEN EmptyDict
                                           ELSE predictions[w]],
                          adjustments)

\* C22: a predictions document that exists and does not decrypt is not
\* answered like an absent one: load_predictions(week) does not return for
\* it the {} it returns for an absent document, and calculate_user_scores
\* does not return the scores it returns with the document absent.
C22_UndecodableIsNotAbsent ==
    /\ ( /\ call.op = "load_predictions"
         /\ call.username = NoUsername
         /\ call.week_num \in unreadable )
       => call.result.returned # EmptyDict
    /\ ( /\ user_scores.called
         /\ \E w \in unreadable : w \in CompletedWeeks(current_week) )
       => Scores # ScoresWithoutUnreadable

\* the users whose entry in week_num's document is not the same before and
\* after the step: added, removed or changed
ChangedEntries(week_num) ==
    { username \in DOMAIN predictions[week_num] \cup DOMAIN predictions'[week_num] :
        \/ username \notin DOMAIN predictions[week_num]
        \/ username \notin DOMAIN predictions'[week_num]
        \/ predictions[week_num][username] # predictions'[week_num][username] }

\* C26: save_predictions(u, W, P) changes only u's entry of week W's
\* document: a step changes the entry of at most one user in any week's
\* document, whatever the stored document was, one that does not decrypt
\* included.
C26_OnlyOwnEntryChanges ==
    [][ \A week_num \in Weeks : Cardinality(ChangedEntries(week_num)) <= 1 ]_vars

\* C27: per-user lookup accepts both stored shapes: for a user whose entry
\* in a readable document holds a non-empty list, as a bare list or as a
\* record, load_predictions(W, u) returns that list and
\* has_user_predicted(u, W) returns True.
C27_LookupAcceptsBothShapes ==
    ( /\ call.op \in {"load_predictions", "has_user_predicted"}
      /\ call.username # NoUsername
      /\ call.week_num \notin unreadable
      /\ HasEntry(call.username, call.week_num) )
    => LET stored == predictions[call.week_num][call.username].predictions
       IN  IF call.op = "load_predictions"
           THEN call.result.returned = stored
           ELSE call.result = (Len(stored) > 0)

\* ------------------------------------------------------------------------
\* SpecPanel: the admin's score management against a store that moves
\* ------------------------------------------------------------------------
\* the adjustment dict of save_manual_adjustment with its reason and admin
ReasonedAdjustment(username, points_change, reason, admin_user) ==
    [username |-> username, points_change |-> points_change,
     reason |-> reason, admin_user |-> admin_user]

\* what the admin types: a reason or none, a new total
Reasons == {"", "late result"}
NewTotals == {0, 5}

\* selected_user['total_points'] of the leaderboard read from the store as
\* it is
TotalOf(username) ==
    calculate_user_scores(users, current_week, results,
                          DecryptedPredictions, adjustments)[username].total_points

InitPanel ==
    /\ LegacyStore
    /\ sessions = NoSessions
    /\ call = NoCall
    /\ user_scores = NoScores
    /\ leaderboard = NotRanked
    /\ prediction = Prediction(0, 0)
    /\ actual_result = NoneResult
    /\ weights = ConfiguredWeights
    /\ points = NotCalled

\* save_manual_adjustment(username, points_change, reason, admin_user),
\* called by the panel or by any other caller: the entry is appended as
\* it comes
CallSaveManualAdjustment(username, points_change, reason, admin_user) ==
    /\ Commit
    /\ adjustments' =
         AppendedLog(adjustments,
                     ReasonedAdjustment(username, points_change, reason, admin_user))
    /\ revision' = [revision EXCEPT !.adjustments = @ + 1]
    /\ UNCHANGED <<users, current_week, results, predictions>>
    /\ UNCHANGED sessions
    /\ UNCHANGED settingVars

\* "Add Points" / "Subtract Points" pressed: with a reason the adjustment
\* is saved, without one the panel shows a warning and saves nothing
PanelAdjust(admin_user, username, points_change, reason) ==
    IF reason # ""
    THEN CallSaveManualAdjustment(username, points_change, reason, admin_user)
    ELSE /\ call' = [op |-> "panel_adjust", message |-> "warning"]
         /\ UNCHANGED storeVars
         /\ UNCHANGED scoreVars
         /\ UNCHANGED <<user_scores, leaderboard, revision, sessions>>
         /\ UNCHANGED settingVars

\* "Set Total Points" pressed with a reason: the run reads the leaderboard
\* and computes points_change = new_total - current_total
SetTotalRanked(s, username, new_total) ==
    /\ sessions[s].pc = "idle"
    /\ username \in KnownUsers(users) \ {"admin"}
    /\ sessions' = [sessions EXCEPT ![s] =
                      [IdleSession EXCEPT
                         !.pc = "ranked", !.op = "set_total",
                         !.username = username, !.new_total = new_total,
                         !.reason = "set total",
                         !.points_change = new_total - TotalOf(username)]]
    /\ NothingWritten

\* save_manual_adjustment of that run up to its GET of the log
SetTotalRead(s) ==
    /\ sessions[s].pc = "ranked"
    /\ sessions' = [sessions EXCEPT ![s].pc = "read",
                                    ![s].log = adjustments,
                                    ![s].sha = revision.adjustments]
    /\ NothingWritten

\* save_manual_adjustment of that run from its PUT on
SetTotalPut(s) ==
    /\ sessions[s].pc = "read"
    /\ sessions[s].op = "set_total"
    /\ IF StoreAccepts(RequestSha(sessions[s].sha, revision.adjustments),
                       revision.adjustments)
       THEN /\ Commit
            /\ adjustments' =
                 AppendedLog(sessions[s].log,
                             ReasonedAdjustment(sessions[s].username,
                                                sessions[s].points_change,
                                                sessions[s].reason,
                                                "admin"))
            /\ revision' = [revision EXCEPT !.adjustments = @ + 1]
            /\ sessions' = Returned(s, TRUE)
            /\ UNCHANGED <<users, current_week, results, predictions>>
            /\ UNCHANGED settingVars
       ELSE /\ sessions' = Returned(s, FALSE)
            /\ NothingWritten

\* the admin session that sets a total, the user whose total the admins
\* move, and what another caller appends
PanelSessions == {"s1"}
PanelDelta == 3
OtherUser == "bob"

NextPanel ==
    \/ \E reason \in Reasons :
            CallSaveManualAdjustment(OtherUser, PanelDelta, reason, "admin")
    \/ \E reason \in Reasons :
            PanelAdjust("admin", ConcTarget, PanelDelta, reason)
    \/ \E s \in PanelSessions, new_total \in NewTotals :
            SetTotalRanked(s, ConcTarget, new_total)
    \/ \E s \in PanelSessions : SetTotalRead(s)
    \/ \E s \in PanelSessions : SetTotalPut(s)
    \/ \E s \in PanelSessions : Finish(s)
    \/ \E table \in ResultTables : SaveResults(1, table)
    \/ \E week_num \in 1..(MaxWeek + 1) : SetCurrentWeek(week_num)

SpecPanel == InitPanel /\ [][NextPanel]_vars

\* ------------------------------------------------------------------------
\* Claims about score management (checked under SpecPanel)
\* ------------------------------------------------------------------------
\* C23: no call path, a direct call of save_manual_adjustment included,
\* appends an entry with an empty reason or an empty admin_user to the log.
C23_NoEntryWithoutReason ==
    \A i \in DOMAIN adjustments :
        adjustments[i].reason # "" /\ adjustments[i].admin_user # ""

\* session s is in the step of "Set Total Points" in which its
\* save_manual_adjustment returns True
SetTotalSucceeds(s) ==
    /\ sessions[s].op = "set_total"
    /\ sessions[s].pc = "read"
    /\ sessions'[s].pc = "done"
    /\ sessions'[s].returned

\* C28: when "Set Total Points" to N for user u succeeds, u's recomputed
\* leaderboard total is N, whatever other admins' adjustments, results
\* uploads or week changes came between its leaderboard read and its
\* append.
C28_SetTotalReachesTotal ==
    [][ \A s \in Sessions :
          SetTotalSucceeds(s) =>
              TotalOf(sessions[s].username)' = sessions[s].new_total ]_vars

\* ------------------------------------------------------------------------
\* SpecForm: a submission of the predictions form while the admin closes
\* predictions or moves the week
\* ------------------------------------------------------------------------
\* the store at the start of a season: the players are registered, week 1
\* is current, predictions are open, the fixtures of every week are
\* uploaded (load_fixtures finds them), nothing else is stored yet
SeasonStart ==
    /\ users = <<"admin", "alice", "bob">>
    /\ current_week = 1
    /\ results = [w \in Weeks |-> [exists |-> FALSE, rows |-> <<>>]]
    /\ predictions = [w \in Weeks |-> EmptyDict]
    /\ adjustments = <<>>
    /\ commits = 0
    /\ revision = NoRevisions
    /\ predictions_open = TRUE
    /\ unreadable = {}
    /\ missing = {}

InitForm ==
    /\ SeasonStart
    /\ sessions = NoSessions
    /\ call = NoCall
    /\ user_scores = NoScores
    /\ leaderboard = NotRanked
    /\ prediction = Prediction(0, 0)
    /\ actual_result = NoneResult
    /\ weights = ConfiguredWeights
    /\ points = NotCalled

\* set_predictions_open(open_status): settings.json is read and written
\* back with the new flag
SetPredictionsOpen(open_status) ==
    /\ Commit
    /\ predictions_open' = open_status
    /\ missing' = missing \ {"settings"}
    /\ UNCHANGED <<users, current_week, results, predictions, adjustments>>
    /\ UNCHANGED <<revision, sessions, unreadable>>

\* main() of the run that the submit button started:
\* current_week = config_manager.get_current_week()
FormMain(s) ==
    /\ sessions[s].pc = "idle"
    /\ sessions' = [sessions EXCEPT ![s] =
                      [IdleSession EXCEPT
                         !.pc = "main", !.op = "save_predictions",
                         !.username = SessionUser[s],
                         !.week_num = current_week]]
    /\ NothingWritten

\* prediction_form(week_num, username) up to its check: closed predictions
\* end the run with a warning, open ones let it go on to the form
FormOpen(s) ==
    /\ sessions[s].pc = "main"
    /\ sessions' = IF predictions_open
                   THEN [sessions EXCEPT ![s].pc = "form"]
                   ELSE [sessions EXCEPT ![s].pc = "done",
                                         ![s].message = "closed"]
    /\ NothingWritten

\* the submitted form: save_predictions(username, week_num, predictions)
\* up to its GET of the week's document
FormRead(s, list) ==
    /\ sessions[s].pc = "form"
    /\ sessions' = [sessions EXCEPT
                      ![s].pc = "read",
                      ![s].list = list,
                      ![s].document =
                         DecryptedOrEmpty(predictions[sessions[s].week_num],
                                          sessions[s].week_num \notin unreadable),
                      ![s].sha = revision.predictions[sessions[s].week_num]]
    /\ NothingWritten

NextForm ==
    \/ \E s \in Sessions : FormMain(s)
    \/ \E s \in Sessions : FormOpen(s)
    \/ \E s \in Sessions, list \in ConcLists : FormRead(s, list)
    \/ \E s \in Sessions : PutPredictions(s)
    \/ \E s \in Sessions : RequestFails(s)
    \/ \E s \in Sessions : Finish(s)
    \/ \E open_status \in BOOLEAN : SetPredictionsOpen(open_status)
    \/ \E week_num \in Weeks : SetCurrentWeek(week_num)

SpecForm == InitForm /\ [][NextForm]_vars

\* ------------------------------------------------------------------------
\* Claims about the predictions form (checked under SpecForm)
\* ------------------------------------------------------------------------
\* C24: once predictions_open = false is written, no save_predictions
\* write reaches the store: in a state with predictions closed no step
\* changes a predictions document, whatever the interleaving of
\* set_predictions_open(False) with a submission.
C24_NoWriteAfterClose ==
    [][ (~predictions_open) => predictions' = predictions ]_vars

\* C29: a submission writes only the document of the week that is current
\* when it writes: a step that changes the predictions document of a week
\* happens with that week as current_week, so the documents of weeks
\* before current_week are never changed, whatever the interleaving with
\* set_current_week.
C29_OnlyCurrentWeekWritten ==
    [][ \A week_num \in Weeks :
          predictions'[week_num] # predictions[week_num]
              => week_num = current_week ]_vars

\* ------------------------------------------------------------------------
\* SpecFault: reads of the store that fail
\* ------------------------------------------------------------------------
\* the documents whose GET can answer with an error status other than 404
\* (or not answer), so that _get_file_from_github raises
Documents == {"results", "predictions", "settings", "log"}

\* get_current_week: "except Exception ... return 1"
CurrentWeekRead(failing) ==
    IF "settings" \in failing THEN 1 ELSE current_week

\* load_results: "except Exception ... st.error ... return None" for every
\* week
ResultsRead(failing) ==
    IF "results" \in failing
    THEN [w \in DOMAIN results |-> [exists |-> FALSE, rows |-> <<>>]]
    ELSE results

\* load_predictions(week): "except Exception ... return {}" for every week
PredictionsRead(failing) ==
    IF "predictions" \in failing
    THEN [w \in DOMAIN predictions |-> EmptyDict]
    ELSE DecryptedPredictions

\* get_manual_adjustments(): "except Exception as e: return []"
LogRead(failing) ==
    IF "log" \in failing THEN <<>> ELSE adjustments

\* get_manual_adjustments(username): the entries of the log, those of
\* username when one is given; nothing is raised
get_manual_adjustments(username, failing) ==
    [raised |-> FALSE,
     entries |-> IF username = NoUsername THEN LogRead(failing)
                 ELSE SelectSeq(LogRead(failing),
                                LAMBDA adj : adj.username = username)]

\* get_leaderboard() of a request in which the reads of the documents in
\* failing fail: every read has its own try/except, nothing is raised
LeaderboardRead(failing) ==
    [raised |-> FALSE,
     entries |-> get_leaderboard(users, CurrentWeekRead(failing),
                                 ResultsRead(failing), PredictionsRead(failing),
                                 LogRead(failing))]

InitFault == InitConc

\* a request calls get_leaderboard()
CallGetLeaderboard(failing) ==
    /\ call' = [op |-> "get_leaderboard", username |-> NoUsername,
                failing |-> failing, result |-> LeaderboardRead(failing)]
    /\ OnlyCalled

\* a request calls get_manual_adjustments(username)
CallGetManualAdjustments(username, failing) ==
    /\ call' = [op |-> "get_manual_adjustments", username |-> username,
                failing |-> failing,
                result |-> get_manual_adjustments(username, failing)]
    /\ OnlyCalled

NextFault ==
    \/ \E failing \in SUBSET Documents : CallGetLeaderboard(failing)
    \/ \E username \in LoadUsers \cup {NoUsername}, failing \in SUBSET {"log"} :
            CallGetManualAdjustments(username, failing)
    \/ \E username \in LoadUsers, points_change \in PointsChanges :
            SaveManualAdjustment(username, points_change)

SpecFault == InitFault /\ [][NextFault]_vars

\* ------------------------------------------------------------------------
\* Claims about failing reads (checked under SpecFault)
\* ------------------------------------------------------------------------
\* C25: get_leaderboard and get_manual_adjustments do not return a
\* normal-looking result when a read of results, predictions, settings or
\* the log failed with an error other than "absent": the call raises.
C25_FailedReadIsNotAResult ==
    (call.op \in {"get_leaderboard", "get_manual_adjustments"}
        /\ call.failing # {})
        => call.result.raised

\* ------------------------------------------------------------------------
\* SpecInit: _initialize_config_files against a store that moves
\* ------------------------------------------------------------------------
\* "sha=None": a PUT that carries no sha
NoSha == 0

\* the sha _get_file_from_github returns for users.json or settings.json:
\* None on 404, the document's sha on 200
ConfigSha(document) == IF document \in missing THEN NoSha ELSE 1

\* default_users, default_settings
DefaultUsers == <<"admin">>
DefaultWeek == 1
DefaultOpen == TRUE

\* Faulty variant of DefaultsNeeded: the defaults are written whatever
\* the GET found.
DefaultsAlways(read_sha) == TRUE

\* "if not users_content:" / "if not settings_content:" for what the GET
\* returned
DefaultsNeeded(read_sha) == read_sha = NoSha

\* the users.json documents the program writes: the defaults, and what
\* add_user makes of them or of an absent document
UsersDocuments == { <<"admin">>, <<"admin", "alice">>, <<"alice">> }

\* a repository before, during or after its first start: each of the two
\* config documents is there or not; an absent one reads as get_users,
\* get_current_week and are_predictions_open read it
InitInitialize ==
    /\ missing \in SUBSET {"users", "settings"}
    /\ users \in IF "users" \in missing THEN { <<>> } ELSE UsersDocuments
    /\ current_week \in IF "settings" \in missing THEN {DefaultWeek} ELSE Weeks
    /\ predictions_open \in IF "settings" \in missing THEN {DefaultOpen} ELSE BOOLEAN
    /\ results = [w \in Weeks |-> [exists |-> FALSE, rows |-> <<>>]]
    /\ predictions = [w \in Weeks |-> EmptyDict]
    /\ adjustments = <<>>
    /\ commits = 0
    /\ revision = NoRevisions
    /\ unreadable = {}
    /\ sessions = NoSessions
    /\ call = NoCall
    /\ user_scores = NoScores
    /\ leaderboard = NotRanked
    /\ prediction = Prediction(0, 0)
    /\ actual_result = NoneResult
    /\ weights = ConfiguredWeights
    /\ points = NotCalled

\* _initialize_config_files up to its GET of users.json
InitializeGetUsers(s) ==
    /\ sessions[s].pc = "idle"
    /\ sessions' = [sessions EXCEPT ![s] =
                      [IdleSession EXCEPT
                         !.pc = "users_read", !.op = "initialize",
                         !.sha = ConfigSha("users")]]
    /\ NothingWritten

\* "if not users_content:" and the PUT of default_users without a sha; a
\* PUT the store rejects raises out of _initialize_config_files
InitializePutUsers(s) ==
    /\ sessions[s].pc = "users_read"
    /\ IF ~DefaultsNeeded(sessions[s].sha)
       THEN /\ sessions' = [sessions EXCEPT ![s].pc = "users_done"]
            /\ NothingWritten
       ELSE IF StoreAccepts(RequestSha(NoSha, ConfigSha("users")), ConfigSha("users"))
       THEN /\ Commit
            /\ users' = DefaultUsers
            /\ missing' = missing \ {"users"}
            /\ sessions' = [sessions EXCEPT ![s].pc = "users_done"]
            /\ UNCHANGED <<current_week, results, predictions, adjustments>>
            /\ UNCHANGED <<revision, predictions_open, unreadable>>
       ELSE /\ sessions' = Returned(s, FALSE)
            /\ NothingWritten

\* the GET of settings.json
InitializeGetSettings(s) ==
    /\ sessions[s].pc = "users_done"
    /\ sessions' = [sessions EXCEPT ![s].pc = "settings_read",
                                    ![s].sha = ConfigSha("settings")]
    /\ NothingWritten

\* "if not settings_content:" and the PUT of default_settings without a sha
InitializePutSettings(s) ==
    /\ sessions[s].pc = "settings_read"
    /\ IF ~DefaultsNeeded(sessions[s].sha)
       THEN /\ sessions' = Returned(s, TRUE)
            /\ NothingWritten
       ELSE IF StoreAccepts(RequestSha(NoSha, ConfigSha("settings")),
                            ConfigSha("settings"))
       THEN /\ Commit
            /\ current_week' = DefaultWeek
            /\ predictions_open' = DefaultOpen
            /\ missing' = missing \ {"settings"}
            /\ sessions' = Returned(s, TRUE)
            /\ UNCHANGED <<users, results, predictions, adjustments>>
            /\ UNCHANGED <<revision, unreadable>>
       ELSE /\ sessions' = Returned(s, FALSE)
            /\ NothingWritten

NextInitialize ==
    \/ \E s \in Sessions : InitializeGetUsers(s)
    \/ \E s \in Sessions : InitializePutUsers(s)
    \/ \E s \in Sessions : InitializeGetSettings(s)
    \/ \E s \in Sessions : InitializePutSettings(s)
    \/ \E s \in Sessions : Finish(s)
    \/ \E username \in LoadUsers : AddUser(username)
    \/ \E week_num \in Weeks : SetCurrentWeek(week_num)
    \/ \E open_status \in BOOLEAN : SetPredictionsOpen(open_status)

SpecInit == InitInitialize /\ [][NextInitialize]_vars

\* ------------------------------------------------------------------------
\* Claims about initialization (checked under SpecInit)
\* ------------------------------------------------------------------------
\* session s takes a step of _initialize_config_files
InitializeStep(s) ==
    /\ sessions'[s].op = "initialize"
    /\ sessions'[s] # sessions[s]

\* C30: _initialize_config_files never overwrites an existing users or
\* settings document: a step of it changes a document only when that
\* document is absent, and then to the defaults; a run whose GET found the
\* document writes nothing and raises nothing, so a run on an initialized
\* store changes nothing, whatever add_user or settings updates come in
\* between.
C30_InitializeKeepsExisting ==
    [][ \A s \in Sessions :
          InitializeStep(s) =>
            /\ ("users" \notin missing => users' = users)
            /\ ("settings" \notin missing =>
                   /\ current_week' = current_week
                   /\ predictions_open' = predictions_open)
            /\ (users' # users => users' = DefaultUsers)
            /\ (missing = {} => (commits' = commits /\ missing' = missing))
            /\ ((sessions[s].pc \in {"users_read", "settings_read"}
                    /\ sessions[s].sha # NoSha)
                  => sessions'[s].message # "error") ]_vars

\* C30 witness: a run read users.json as absent, add_user created it
\* before the run's PUT, the store rejected the PUT, and the document
\* add_user wrote is still there (settings.json was never reached).
C30_Witness ==
    \E s \in Sessions :
        /\ sessions[s].op = "initialize"
        /\ sessions[s].pc = "done"
        /\ sessions[s].message = "error"
        /\ "settings" \in missing
        /\ users = <<"alice">>

====
